---- MODULE Spec2Model ----
(***************************************************************************)
(* Model of gen_ssh_config.py: main() calls get_hosts, get_services and    *)
(* create_ssh_config in sequence against a netbox inventory and one        *)
(* output file.  Text is a sequence of pieces: the literal chunks of the   *)
(* header and of CONFIG_TEMPLATE are one piece each, the characters of a   *)
(* formatted value are one piece each.                                     *)
(***************************************************************************)
EXTENDS Integers, Sequences, FiniteSets, TLC

----------------------------------------------------------------------------
(* Bounds of the explored inventories and of the number of runs.           *)

MaxDevices == 2
MaxVMs == 1
MaxServices == 2
MaxRuns == 2

----------------------------------------------------------------------------
(* Python values.                                                          *)

\* A possibly-None object with an address / a name attribute.
NoneObj == [present |-> FALSE, text |-> <<>>]
Obj(t) == [present |-> TRUE, text |-> t]

\* The value under host["ssh_port"]: the key is absent, an int, or a str.
NoPort == [kind |-> "absent", n |-> 0, s |-> <<>>]
PyInt(n) == [kind |-> "int", n |-> n, s |-> <<>>]
PyStr(s) == [kind |-> "str", n |-> 0, s |-> s]

\* The result of a netbox query: it raises, or yields records in order.
Raises == [raises |-> TRUE, records |-> <<>>]
Returns(recs) == [raises |-> FALSE, records |-> recs]

\* The output file: missing, or present with a content.
NoFile == [exists |-> FALSE, content |-> <<>>]
FileOf(c) == [exists |-> TRUE, content |-> c]

RECURSIVE SeqsUpTo(_, _)
SeqsUpTo(S, n) ==
    IF n = 0 THEN {<<>>}
    ELSE LET shorter == SeqsUpTo(S, n - 1)
         IN  shorter \cup {Append(q, x) : q \in shorter, x \in S}

RECURSIVE Concat(_)
Concat(ss) == IF ss = <<>> THEN <<>> ELSE Head(ss) \o Concat(Tail(ss))

----------------------------------------------------------------------------
(* String operations.                                                      *)

\* text.split(sep)[0]: the characters before the first separator.
RECURSIVE SplitFirst(_, _)
SplitFirst(text, sep) ==
    IF text = <<>> \/ Head(text) = sep THEN <<>>
    ELSE <<Head(text)>> \o SplitFirst(Tail(text), sep)

Digits == <<"0", "1", "2", "3", "4", "5", "6", "7", "8", "9">>

\* str(n) of a non-negative int.
RECURSIVE IntToStr(_)
IntToStr(n) ==
    IF n < 10 THEN <<Digits[n + 1]>>
    ELSE IntToStr(n \div 10) \o <<Digits[(n % 10) + 1]>>

\* What "{port}".format(port=v) yields for an int or a str.
FormatValue(v) == IF v.kind = "int" THEN IntToStr(v.n) ELSE v.s

----------------------------------------------------------------------------
(* Settings and templates.                                                 *)

\* settings["statuses"]
status_list == <<"active", "staged">>

\* args.username
username == <<"u">>

HEADER == "# This file is managed by script:gen_ssh_config.py. Do not edit.\n"

\* "22", the default port
DEFAULT_PORT == PyStr(<<"2", "2">>)

InSeq(x, q) == \E i \in 1..Len(q) : q[i] = x

----------------------------------------------------------------------------
(* get_hosts                                                               *)

\* Mutant: the status re-check is missing.
RECURSIVE Collect_no_status(_, _)
Collect_no_status(records, statuses) ==
    IF records = <<>> THEN <<>>
    ELSE LET host == Head(records)
             rest == Collect_no_status(Tail(records), statuses)
         IN  IF ~host.primary_ip.present THEN rest
             ELSE <<[name |-> SplitFirst(host.name, "."),
                     ip |-> SplitFirst(host.primary_ip.text, "/"),
                     ssh_port |-> NoPort]>> \o rest

\* The inner loop over one response: skip a host without primary_ip, skip a
\* host whose status is not in the list, append {name, ip} otherwise.
RECURSIVE Collect(_, _)
Collect(records, statuses) ==
    IF records = <<>> THEN <<>>
    ELSE LET host == Head(records)
             rest == Collect(Tail(records), statuses)
         IN  IF ~host.primary_ip.present THEN rest
             ELSE IF ~InSeq(host.status, statuses) THEN rest
             ELSE <<[name |-> SplitFirst(host.name, "."),
                     ip |-> SplitFirst(host.primary_ip.text, "/"),
                     ssh_port |-> NoPort]>> \o rest

\* Mutant: an error of the virtual-machine query after a good device query
\* keeps the devices and reports success.
get_hosts_keep_devices(devs, vms, statuses) ==
    IF devs.raises THEN [ok |-> FALSE, hosts |-> <<>>]
    ELSE [ok |-> TRUE,
          hosts |-> Collect(devs.records, statuses)
                    \o Collect(vms.records, statuses)]

\* Mutant: an inventory without any record is reported as a failure.
get_hosts_empty_fails(devs, vms, statuses) ==
    IF devs.raises \/ vms.raises \/ (devs.records = <<>> /\ vms.records = <<>>)
    THEN [ok |-> FALSE, hosts |-> <<>>]
    ELSE [ok |-> TRUE,
          hosts |-> Collect(devs.records, statuses)
                    \o Collect(vms.records, statuses)]

\* get_hosts(netbox_api, tag, status_list): devs and vms are what the two
\* filter() calls do.  A non-empty response is stored under "devices" /
\* "virtual_machines" (in that order) and the stored responses are collected.
get_hosts(devs, vms, statuses) ==
    IF devs.raises \/ vms.raises THEN [ok |-> FALSE, hosts |-> <<>>]
    ELSE LET response_dict ==
                 (IF devs.records # <<>> THEN <<devs.records>> ELSE <<>>)
                 \o (IF vms.records # <<>> THEN <<vms.records>> ELSE <<>>)
         IN  [ok |-> TRUE,
              hosts |-> Concat([i \in 1..Len(response_dict) |->
                                   Collect(response_dict[i], statuses)])]

----------------------------------------------------------------------------
(* get_services                                                            *)

IsSsh(service) == service.name = "ssh" \/ service.name = "sshd"

\* service_list: the services named ssh or sshd, in catalog order.
FilterSsh(records) == SelectSeq(records, IsSsh)

SetPort(host, port) == [host EXCEPT !.ssh_port = port]

\* Mutant: no break, so every later service is evaluated as well.
RECURSIVE ResolvePort_no_break(_, _)
ResolvePort_no_break(host, service_list) ==
    IF service_list = <<>> THEN host
    ELSE LET service == Head(service_list)
         IN  IF \/ service.device.present /\ host.name = service.device.text
                \/ service.virtual_machine.present
                   /\ host.name = service.virtual_machine.text
             THEN ResolvePort_no_break(SetPort(host, PyInt(service.ports[1])),
                                       Tail(service_list))
             ELSE ResolvePort_no_break(SetPort(host, DEFAULT_PORT),
                                       Tail(service_list))

\* The inner loop for one host: the first service owned by a device or a
\* virtual machine of the host's name sets ssh_port and ends the loop; every
\* service evaluated before it sets ssh_port to "22".
RECURSIVE ResolvePort(_, _)
ResolvePort(host, service_list) ==
    IF service_list = <<>> THEN host
    ELSE LET service == Head(service_list)
         IN  IF service.device.present /\ host.name = service.device.text
             THEN SetPort(host, PyInt(service.ports[1]))
             ELSE IF service.virtual_machine.present
                     /\ host.name = service.virtual_machine.text
             THEN SetPort(host, PyInt(service.ports[1]))
             ELSE ResolvePort(SetPort(host, DEFAULT_PORT), Tail(service_list))

\* Mutant: an error of the catalog query is taken for an empty catalog.
get_services_ignore_error(services, host_list) ==
    LET service_list == FilterSsh(services.records)
        resolved == [i \in 1..Len(host_list) |->
                        ResolvePort(host_list[i], service_list)]
    IN  [ok |-> TRUE, ret |-> resolved, arg |-> resolved]

\* get_services(netbox_api, host_list): services is what services.all()
\* does.  ret is the returned list, arg the caller's list object after the
\* call (the hosts are updated in place).
get_services(services, host_list) ==
    IF services.raises THEN [ok |-> FALSE, ret |-> <<>>, arg |-> host_list]
    ELSE LET service_list == FilterSsh(services.records)
             resolved == [i \in 1..Len(host_list) |->
                             ResolvePort(host_list[i], service_list)]
         IN  [ok |-> TRUE, ret |-> resolved, arg |-> resolved]

----------------------------------------------------------------------------
(* create_ssh_config                                                       *)

\* Mutant: the hostname field is filled with the host's name.
CONFIG_TEMPLATE_swapped(host, hostname, user, port) ==
    <<"\nhost ">> \o host \o <<"\n    hostname ">> \o host
    \o <<"\n    user ">> \o user \o <<"\n    port ">> \o port \o <<"\n">>

\* CONFIG_TEMPLATE.format(host=..., hostname=..., user=..., port=...)
CONFIG_TEMPLATE(host, hostname, user, port) ==
    <<"\nhost ">> \o host \o <<"\n    hostname ">> \o hostname
    \o <<"\n    user ">> \o user \o <<"\n    port ">> \o port \o <<"\n">>

\* The loop over host_list: host["ssh_port"] raises KeyError when the key is
\* absent, and what was written before stays written.
RECURSIVE WriteHosts(_, _, _)
WriteHosts(written, host_list, user) ==
    IF host_list = <<>> THEN [content |-> written, raised |-> FALSE]
    ELSE LET host == Head(host_list)
         IN  IF host.ssh_port.kind = "absent"
             THEN [content |-> written, raised |-> TRUE]
             ELSE WriteHosts(written \o CONFIG_TEMPLATE(host.name, host.ip, user,
                                            FormatValue(host.ssh_port)),
                             Tail(host_list), user)

\* Mutant: the file is opened for append.
create_ssh_config_append(host_list, file, user) ==
    LET out == WriteHosts(file.content \o <<HEADER>>, host_list, user)
    IN  [file |-> FileOf(out.content), raised |-> out.raised, ret |-> "None"]

\* create_ssh_config(host_list, path, username): open(path, "w") truncates
\* or creates the file, the header is written, then the hosts.  There is no
\* return statement: the call yields None.
create_ssh_config(host_list, file, user) ==
    LET out == WriteHosts(<<HEADER>>, host_list, user)
    IN  [file |-> FileOf(out.content), raised |-> out.raised, ret |-> "None"]

----------------------------------------------------------------------------
(* The inventories explored.                                               *)

DeviceRecord(name, primary_ip, st) ==
    [name |-> name, primary_ip |-> primary_ip, status |-> st]

ServiceRecord(name, device, virtual_machine, ports) ==
    [name |-> name, device |-> device, virtual_machine |-> virtual_machine,
     ports |-> ports]

\* Hosts that get_hosts keeps: short names "a" and "b".
GoodHosts ==
    { DeviceRecord(<<"a">>, Obj(<<"1", "/", "8">>), "active"),
      DeviceRecord(<<"b", ".", "d">>, Obj(<<"2", "/", "8">>), "staged") }

\* Hosts without an address or with a status outside the list as well.
AnyHosts ==
    GoodHosts \cup
    { DeviceRecord(<<"a">>, NoneObj, "active"),
      DeviceRecord(<<"b", ".", "d">>, Obj(<<"1", "/", "8">>), "offline"),
      DeviceRecord(<<"a", ".", "d">>, NoneObj, "offline") }

AnyServices ==
    { ServiceRecord("ssh", Obj(<<"a">>), NoneObj, <<2222, 22>>),
      ServiceRecord("sshd", NoneObj, Obj(<<"a">>), <<8022>>),
      ServiceRecord("ssh", NoneObj, Obj(<<"b">>), <<22>>),
      ServiceRecord("http", Obj(<<"a">>), NoneObj, <<80>>),
      ServiceRecord("ssh", Obj(<<"c">>), NoneObj, <<2200>>) }

FewServices ==
    { ServiceRecord("sshd", Obj(<<"a">>), NoneObj, <<2222, 22>>) }

Responses(S, n) == {Raises} \cup {Returns(q) : q \in SeqsUpTo(S, n)}

\* Either the two host queries vary widely and the catalog little, or the
\* catalog varies widely and the host queries return hosts that are kept.
Inventories ==
    ( Responses(AnyHosts, MaxDevices) \X Responses(AnyHosts, MaxVMs)
      \X Responses(FewServices, 1) )
    \cup
    ( Responses(GoodHosts, MaxDevices) \X Responses(GoodHosts, MaxVMs)
      \X Responses(AnyServices, MaxServices) )

InitialFiles == {NoFile, FileOf(<<"stale\n">>)}

----------------------------------------------------------------------------
(* main                                                                    *)

VARIABLES
    devices,           \* what dcim.devices.filter(...) does
    virtual_machines,  \* what virtualization.virtual_machines.filter(...) does
    services,          \* what ipam.services.all() does
    file,              \* the file at args.path
    pc,                \* the next call of main: get_hosts, get_services,
                       \* create_ssh_config, or done
    status,            \* main's status: unset, True, False, None
    host_list,         \* main's host_list
    collected,         \* the list object get_hosts built, as it is now
    invoked,           \* the functions main has called in this run
    exit,              \* how the run ended
    fileBefore,        \* the file when the run started
    runs               \* the number of the run

vars == <<devices, virtual_machines, services, file, pc, status, host_list,
          collected, invoked, exit, fileBefore, runs>>

inventory == <<devices, virtual_machines, services>>

PyBool(b) == IF b THEN "True" ELSE "False"

\* `if not status`
Not(value) == value # "True"

Init ==
    /\ \E inv \in Inventories :
          /\ devices = inv[1]
          /\ virtual_machines = inv[2]
          /\ services = inv[3]
    /\ file \in InitialFiles
    /\ fileBefore = file
    /\ pc = "get_hosts"
    /\ status = "unset"
    /\ host_list = <<>>
    /\ collected = <<>>
    /\ invoked = {}
    /\ exit = "running"
    /\ runs = 1

\* status, host_list = get_hosts(...); if not status: return None
MainGetHosts ==
    /\ pc = "get_hosts"
    /\ LET r == get_hosts(devices, virtual_machines, status_list)
       IN  /\ status' = PyBool(r.ok)
           /\ host_list' = r.hosts
           /\ collected' = r.hosts
           /\ IF Not(PyBool(r.ok))
              THEN pc' = "done" /\ exit' = "return_284"
              ELSE pc' = "get_services" /\ exit' = exit
    /\ invoked' = invoked \cup {"get_hosts"}
    /\ UNCHANGED <<inventory, file, fileBefore, runs>>

\* status, host_list = get_services(netbox_api, host_list);
\* if not status: return None
MainGetServices ==
    /\ pc = "get_services"
    /\ LET r == get_services(services, host_list)
       IN  /\ status' = PyBool(r.ok)
           /\ host_list' = r.ret
           /\ collected' = r.arg
           /\ IF Not(PyBool(r.ok))
              THEN pc' = "done" /\ exit' = "return_289"
              ELSE pc' = "create_ssh_config" /\ exit' = exit
    /\ invoked' = invoked \cup {"get_services"}
    /\ UNCHANGED <<inventory, file, fileBefore, runs>>

\* status = create_ssh_config(host_list, args.path, args.username);
\* if not status: return None.  A KeyError is not caught and ends main.
MainCreateSshConfig ==
    /\ pc = "create_ssh_config"
    /\ LET r == create_ssh_config(host_list, file, username)
       IN  /\ file' = r.file
           /\ IF r.raised
              THEN status' = status /\ exit' = "KeyError"
              ELSE /\ status' = r.ret
                   /\ exit' = IF Not(r.ret) THEN "return_293" ELSE "end"
    /\ pc' = "done"
    /\ invoked' = invoked \cup {"create_ssh_config"}
    /\ UNCHANGED <<inventory, host_list, collected, fileBefore, runs>>

\* The scheduler starts the script again, with the inventory as it was.
NextRun ==
    /\ pc = "done"
    /\ runs < MaxRuns
    /\ pc' = "get_hosts"
    /\ status' = "unset"
    /\ host_list' = <<>>
    /\ collected' = <<>>
    /\ invoked' = {}
    /\ exit' = "running"
    /\ fileBefore' = file
    /\ runs' = runs + 1
    /\ UNCHANGED <<inventory, file>>

Next ==
    \/ MainGetHosts
    \/ MainGetServices
    \/ MainCreateSshConfig
    \/ NextRun

Spec == Init /\ [][Next]_vars

----------------------------------------------------------------------------
(* Vocabulary of the properties.                                           *)

Called(f) == f \in invoked

\* The service is owned by a device or a virtual machine of that name.
Owns(service, name) ==
    \/ service.device.present /\ service.device.text = name
    \/ service.virtual_machine.present /\ service.virtual_machine.text = name

\* The ssh/sshd services of the catalog, in catalog order.
SshCatalog == SelectSeq(services.records, LAMBDA sv : sv.name \in {"ssh", "sshd"})

Matches(name) == {j \in 1..Len(SshCatalog) : Owns(SshCatalog[j], name)}

Earliest(name) == CHOOSE j \in Matches(name) : \A k \in Matches(name) : j <= k

\* get_services has returned ok in this run.
Resolved == Called("get_services") /\ ~services.raises

HasPort(host) == host.ssh_port.kind # "absent"

\* The records of a response that have an address and a listed status.
Eligible(record) ==
    /\ record.primary_ip.present
    /\ \E i \in 1..Len(status_list) : status_list[i] = record.status

ExpectedHosts(records) ==
    LET kept == SelectSeq(records, Eligible)
    IN  [i \in 1..Len(kept) |->
            [name |-> SplitFirst(kept[i].name, "."),
             ip |-> SplitFirst(kept[i].primary_ip.text, "/"),
             ssh_port |-> NoPort]]

\* The four-field block of one host.
ExpectedBlock(host) ==
    <<"\nhost ">> \o host.name
    \o <<"\n    hostname ">> \o host.ip
    \o <<"\n    user ">> \o username
    \o <<"\n    port ">> \o FormatValue(host.ssh_port)
    \o <<"\n">>

ExpectedFile(hosts) ==
    FileOf(<<HEADER>> \o Concat([i \in 1..Len(hosts) |-> ExpectedBlock(hosts[i])]))

EmptyInventory ==
    /\ ~devices.raises /\ devices.records = <<>>
    /\ ~virtual_machines.raises /\ virtual_machines.records = <<>>

----------------------------------------------------------------------------
(* Properties.                                                             *)

\* C1: once get_services has returned ok, every host without an ssh/sshd
\* service owned by a device or virtual machine of its name has ssh_port
\* "22", also when the filtered service list is empty.
C1_DefaultPort ==
    Resolved =>
        \A i \in 1..Len(host_list) :
            Matches(host_list[i].name) = {} => host_list[i].ssh_port = DEFAULT_PORT

\* C2: once get_services has returned ok, every host with a matching
\* ssh/sshd service has the first port of the earliest such service of the
\* catalog as its ssh_port.
C2_FirstMatch ==
    Resolved =>
        \A i \in 1..Len(host_list) :
            Matches(host_list[i].name) # {} =>
                host_list[i].ssh_port =
                    PyInt(SshCatalog[Earliest(host_list[i].name)].ports[1])

\* A host whose earliest match comes after a non-matching ssh/sshd service.
C2_Witness ==
    /\ Resolved
    /\ \E i \in 1..Len(host_list) :
          /\ Matches(host_list[i].name) # {}
          /\ Earliest(host_list[i].name) > 1
          /\ host_list[i].ssh_port.kind = "int"

\* C3: when the device query or the virtual-machine query raises, get_hosts
\* returns not-ok with an empty list, main ends without calling get_services
\* or create_ssh_config, and the file is as it was before the run.
C3_HostFailure ==
    (Called("get_hosts") /\ (devices.raises \/ virtual_machines.raises)) =>
        /\ status = "False"
        /\ host_list = <<>>
        /\ pc = "done"
        /\ exit = "return_284"
        /\ invoked = {"get_hosts"}
        /\ file = fileBefore

\* The device query returned hosts that would be kept, the virtual-machine
\* query raised, and the run has ended.
C3_Witness ==
    /\ ~devices.raises
    /\ ExpectedHosts(devices.records) # <<>>
    /\ virtual_machines.raises
    /\ pc = "done"
    /\ exit = "return_284"

\* C4 as stated: when the catalog query raises, the list get_services
\* returns equals the list it was given, no host has an ssh_port, and the
\* file is not written.
C4_Original ==
    (Called("get_services") /\ services.raises) =>
        /\ status = "False"
        /\ host_list = collected
        /\ \A i \in 1..Len(collected) : ~HasPort(collected[i])
        /\ file = fileBefore

\* C4 as amended: when the catalog query raises, get_services returns not-ok
\* with an empty list, the list it was given is unchanged with no host
\* having an ssh_port, and main ends without calling create_ssh_config and
\* without writing the file.
C4_CatalogFailure ==
    (Called("get_services") /\ services.raises) =>
        /\ status = "False"
        /\ host_list = <<>>
        /\ collected = ExpectedHosts(devices.records)
                       \o ExpectedHosts(virtual_machines.records)
        /\ \A i \in 1..Len(collected) : ~HasPort(collected[i])
        /\ pc = "done"
        /\ exit = "return_289"
        /\ ~Called("create_ssh_config")
        /\ file = fileBefore

\* The catalog query raised after hosts had been collected.
C4_Witness ==
    /\ Called("get_services")
    /\ services.raises
    /\ collected # <<>>
    /\ exit = "return_289"

\* C5: when create_ssh_config has written the header and every host block
\* without error, main's status is true and main does not take the early
\* return of a stage that reported not-ok.
C5_RenderOk ==
    (Called("create_ssh_config") /\ exit # "KeyError") =>
        /\ status = "True"
        /\ exit = "end"

\* C6: when both queries succeed, get_hosts returns ok with one host per
\* record that has a primary address and a listed status, in response
\* order, devices before virtual machines, and nothing else; every host
\* handed to create_ssh_config has a non-empty ip.
C6_Filtering ==
    /\ (pc = "get_services" /\ Called("get_hosts")) =>
          /\ status = "True"
          /\ host_list = ExpectedHosts(devices.records)
                         \o ExpectedHosts(virtual_machines.records)
    /\ pc = "create_ssh_config" =>
          \A i \in 1..Len(host_list) : host_list[i].ip # <<>>

\* get_hosts has kept a device and a virtual machine and dropped a device.
C6_Witness ==
    /\ pc = "get_services"
    /\ Called("get_hosts")
    /\ Len(ExpectedHosts(devices.records)) >= 1
    /\ Len(ExpectedHosts(devices.records)) < Len(devices.records)
    /\ Len(ExpectedHosts(virtual_machines.records)) >= 1
    /\ Len(host_list) >= 2

\* C7: after create_ssh_config on hosts that all have name, ip and ssh_port,
\* the file is the header followed by one host/hostname/user/port block per
\* host in list order, with the configured username, and nothing of the
\* previous content.
C7_Rendering ==
    (Called("create_ssh_config") /\ \A i \in 1..Len(host_list) : HasPort(host_list[i])) =>
        file = ExpectedFile(host_list)

\* Two hosts, one with a port from the catalog and one with the default,
\* have been rendered over a file that had other content.
C7_Witness ==
    /\ Called("create_ssh_config")
    /\ Len(host_list) >= 2
    /\ \E i \in 1..Len(host_list) : host_list[i].ssh_port.kind = "int"
    /\ \E i \in 1..Len(host_list) : host_list[i].ssh_port.kind = "str"
    /\ fileBefore.exists
    /\ fileBefore # file
    /\ file = ExpectedFile(host_list)

\* C8: with the inventory, settings, username and path unchanged, a run
\* that follows another run leaves the file exactly as the run before it
\* left it.
C8_Idempotent ==
    (pc = "done" /\ runs >= 2) => file = fileBefore

\* A second run has rendered hosts.
C8_Witness ==
    /\ pc = "done"
    /\ runs >= 2
    /\ Called("create_ssh_config")
    /\ exit # "KeyError"
    /\ Len(host_list) >= 1

\* C9: at the end of every run the file is as it was before the run or
\* holds the header and a block for every host collected in the run.
C9_AllOrNothing ==
    pc = "done" =>
        \/ file = fileBefore
        \/ /\ \A i \in 1..Len(collected) : HasPort(collected[i])
           /\ file = ExpectedFile(collected)

\* C10 as stated: when both host queries return no records without raising,
\* get_hosts returns ok with an empty list and the run ends with
\* get_services and create_ssh_config called and the file holding the header
\* only.
C10_Original ==
    EmptyInventory =>
        /\ pc = "get_services" => (status = "True" /\ host_list = <<>>)
        /\ pc = "done" =>
              /\ invoked = {"get_hosts", "get_services", "create_ssh_config"}
              /\ file = FileOf(<<HEADER>>)

\* C10 as amended: the same, for the runs in which the catalog query does
\* not raise.
C10_EmptyInventory ==
    EmptyInventory =>
        /\ pc = "get_services" => (status = "True" /\ host_list = <<>>)
        /\ (pc = "done" /\ ~services.raises) =>
              /\ invoked = {"get_hosts", "get_services", "create_ssh_config"}
              /\ exit \notin {"return_284", "return_289", "KeyError"}
              /\ file = FileOf(<<HEADER>>)

\* A run on an empty inventory has replaced a file that had other content.
C10_Witness ==
    /\ EmptyInventory
    /\ pc = "done"
    /\ fileBefore.exists
    /\ fileBefore # file
    /\ file = FileOf(<<HEADER>>)

====
